---- MODULE Spec2Model ----
(***************************************************************************)
(* A model of package BigAppList of c12h/SteamAPI: the cache selector      *)
(* FromCacheOrWeb, the fetch path fetchAndCache, the terse-format writer   *)
(* WriteTerseFile / WriteTerse and the terse-format reader FromTerseFile.   *)
(* Spec is one process calling FromCacheOrWeb repeatedly; SpecRace is two  *)
(* processes that share the cache directory, each calling once; SpecIndex  *)
(* is the readers FromJSON and FromTerseFormat and the FindXForY methods    *)
(* applied to one input.                                                   *)
(*                                                                         *)
(* Time is counted in ticks, TicksPerSec ticks to the second, so that      *)
(* time.Time.Unix() and Format("2006-01-02 15:04:05Z") truncate.  A file   *)
(* holds a sequence of units (one header line or one entry line each); a   *)
(* file cut in the middle of a line is not represented.                    *)
(***************************************************************************)
EXTENDS Integers, Sequences, FiniteSets, TLC

VARIABLES clock, dir, pc, call, ncalls, refused, ix

vars == <<clock, dir, pc, call, ncalls, refused, ix>>

(***************************** bounds **************************************)
TicksPerSec == 2
MaxSubTicks == 2
MaxHours    == 2
MaxAgeHours == 2
MaxCalls    == 3
BufCap      == 2

(************************* program constants *******************************)
SecPerHour  == 3600
maxAppID    == 2147483647

Procs == {"p1", "p2"}

HourTicks == SecPerHour * TicksPerSec

\* time.Time.Unix(): whole seconds of an instant given in ticks.
Unix(t) == t \div TicksPerSec

\* time.Unix(sec, 0): the instant at the start of a second.
TimeUnix(sec) == sec * TicksPerSec

(************************* names in the directory **************************)
\* A directory entry name.  kind "cache": SteamAppList@<ts>.txt with a digit
\* run that fits an int64; kind "overlong": SteamAppList@<digits>.txt whose
\* digit run exceeds 2^63-1; kind "other": any other name (BUGS.log).
CacheName(ts) == [kind |-> "cache", ts |-> ts]
OverlongName  == [kind |-> "overlong", ts |-> 0]
BugsLog       == [kind |-> "other", ts |-> 0]
NoName        == [kind |-> "none", ts |-> 0]

\* regexpCacheName.FindStringSubmatch(name) # nil
regexpCacheName(name) == name.kind \in {"cache", "overlong"}

\* strconv.ParseInt(m[1], 10, 64): the value and whether it failed.
ParseInt(name) ==
  IF name.kind = "overlong" THEN [val |-> 0, err |-> TRUE]
                            ELSE [val |-> name.ts, err |-> FALSE]

\* fmt.Sprintf(formatCacheName, unixTime)
formatCacheName(unixTime) == CacheName(unixTime)

(***************************** file contents *******************************)
URL == "http://api.steampowered.com/ISteamApps/GetAppList/v2/"

\* strconv's decimal form of an integer, as "%d" writes it.
RECURSIVE Digits(_)
Digits(n) == IF n < 10 THEN <<48 + n>> ELSE Digits(n \div 10) \o <<48 + (n % 10)>>

FormatInt(n) == IF n < 0 THEN <<45>> \o Digits(0 - n) ELSE Digits(n)

\* A header line "From <url> as of <time>Z" with its time in seconds; a line
\* of bytes with its terminator; the entry line "%d\t%s\n" of an appid and
\* a quoted name; and a line that is no entry ("x" and a line feed).
HdrUnit(sec)     == [kind |-> "hdr",  url |-> URL, sec |-> sec, raw |-> <<>>]
RawUnit(bytes)   == [kind |-> "line", url |-> "",  sec |-> 0,   raw |-> bytes]
LineUnit(id, t)  == RawUnit(FormatInt(id) \o <<9>> \o t \o <<10>>)
BadUnit          == RawUnit(<<120, 10>>)

\* A file: the units on disk, the units its writer set out to write, and
\* the processes that hold or held it open for writing.
File(data, src, writers) == [data |-> data, src |-> src, writers |-> writers]
OldFile(data) == File(data, data, {})

(********************************* strings *********************************)
\* A Go string is a sequence of bytes.  The strings the model uses are named,
\* and Bytes gives the bytes of each: <TAB> is byte 0x09, <C2> a lone byte
\* 0xC2, <C2><99> the UTF-8 form of U+0099, <TM> the UTF-8 form of U+2122
\* and <FFFD> the UTF-8 form of U+FFFD.
Names == {"", "A", "B", "a", "b", "A<TAB>", "<TAB>", "A<C2>", "A<FFFD>",
          "<C2><99>", "<TM>"}

Bytes(s) ==
  CASE s = ""         -> <<>>
    [] s = "A"        -> <<65>>
    [] s = "B"        -> <<66>>
    [] s = "a"        -> <<97>>
    [] s = "b"        -> <<98>>
    [] s = "A<TAB>"   -> <<65, 9>>
    [] s = "<TAB>"    -> <<9>>
    [] s = "A<C2>"    -> <<65, 194>>
    [] s = "A<FFFD>"  -> <<65, 239, 191, 189>>
    [] s = "<C2><99>" -> <<194, 153>>
    [] s = "<TM>"     -> <<226, 132, 162>>

\* string(b): the string with the given bytes.
Str(bs) == CHOOSE s \in Names : Bytes(s) = bs

\* Go's s < t on strings: byte-wise lexicographic order.
RECURSIVE BytesLess(_, _)
BytesLess(a, b) ==
  IF b = <<>> THEN FALSE
  ELSE IF a = <<>> THEN TRUE
  ELSE IF a[1] # b[1] THEN a[1] < b[1]
  ELSE BytesLess(Tail(a), Tail(b))

StrLess(s, t) == BytesLess(Bytes(s), Bytes(t))

\* strings.IndexByte(s, c), 1-based; 0 when c does not occur.
IndexByte(bs, c) ==
  IF \E i \in 1..Len(bs) : bs[i] = c
  THEN CHOOSE i \in 1..Len(bs) : bs[i] = c /\ \A j \in 1..(i - 1) : bs[j] # c
  ELSE 0

IsCont(b) == b >= 128 /\ b <= 191

IsLead3(b) == b >= 224 /\ b <= 239

\* strings.ToUpper on bytes: ASCII letters are raised, a well-formed rune
\* without an upper-case form is kept, a byte that is not part of a
\* well-formed rune becomes U+FFFD.
RECURSIVE UpperBytes(_)
UpperBytes(bs) ==
  IF bs = <<>> THEN <<>>
  ELSE LET b == bs[1]
           n == Len(bs)
       IN IF b < 128
          THEN <<IF b >= 97 /\ b <= 122 THEN b - 32 ELSE b>>
                 \o UpperBytes(Tail(bs))
          ELSE IF b = 194 /\ n >= 2 /\ IsCont(bs[2])
          THEN <<b, bs[2]>> \o UpperBytes(SubSeq(bs, 3, n))
          ELSE IF IsLead3(b) /\ n >= 3 /\ IsCont(bs[2]) /\ IsCont(bs[3])
          THEN <<b, bs[2], bs[3]>> \o UpperBytes(SubSeq(bs, 4, n))
          ELSE <<239, 191, 189>> \o UpperBytes(Tail(bs))

ToUpper(s) == Str(UpperBytes(Bytes(s)))

\* A hexadecimal digit as strconv.Quote writes it, and its value when read.
HexDigit(v) == IF v < 10 THEN 48 + v ELSE 87 + v

HexVal(c) == IF c >= 48 /\ c <= 57 THEN c - 48
             ELSE IF c >= 97 /\ c <= 102 THEN c - 87 ELSE 0 - 1

\* fmt.Sprintf("%q", s) without its first and last byte: tab, quote and
\* backslash are escaped, printable runes are kept, a C1 control rune is
\* written \u00hh and a byte outside any well-formed rune \xhh.
RECURSIVE QuoteBytes(_)
QuoteBytes(bs) ==
  IF bs = <<>> THEN <<>>
  ELSE LET b == bs[1]
           n == Len(bs)
       IN IF b = 9 THEN <<92, 116>> \o QuoteBytes(Tail(bs))
          ELSE IF b = 34 \/ b = 92 THEN <<92, b>> \o QuoteBytes(Tail(bs))
          ELSE IF b < 128 THEN <<b>> \o QuoteBytes(Tail(bs))
          ELSE IF b = 194 /\ n >= 2 /\ IsCont(bs[2])
          THEN (IF bs[2] < 160
                THEN <<92, 117, 48, 48, HexDigit(bs[2] \div 16), HexDigit(bs[2] % 16)>>
                ELSE <<b, bs[2]>>) \o QuoteBytes(SubSeq(bs, 3, n))
          ELSE IF IsLead3(b) /\ n >= 3 /\ IsCont(bs[2]) /\ IsCont(bs[3])
          THEN <<b, bs[2], bs[3]>> \o QuoteBytes(SubSeq(bs, 4, n))
          ELSE <<92, 120, HexDigit(b \div 16), HexDigit(b % 16)>>
                 \o QuoteBytes(Tail(bs))

\* The UTF-8 form of a rune below U+0800.
EncodeRune(r) == IF r < 128 THEN <<r>> ELSE <<192 + (r \div 64), 128 + (r % 64)>>

\* fmt.Fscanf(..., "%q", &name) on the text between the quotes: the escapes
\* are undone, an unescaped quote ends the string, a bad escape fails.
RECURSIVE ScanQuoted(_, _)
ScanQuoted(t, acc) ==
  IF t = <<>> THEN [ok |-> TRUE, bytes |-> acc]
  ELSE LET n == Len(t) IN
       IF t[1] = 34 THEN [ok |-> TRUE, bytes |-> acc]
       ELSE IF t[1] # 92 THEN ScanQuoted(Tail(t), Append(acc, t[1]))
       ELSE IF n < 2 THEN [ok |-> FALSE, bytes |-> <<>>]
       ELSE IF t[2] = 116 THEN ScanQuoted(SubSeq(t, 3, n), Append(acc, 9))
       ELSE IF t[2] = 34 \/ t[2] = 92
            THEN ScanQuoted(SubSeq(t, 3, n), Append(acc, t[2]))
       ELSE IF t[2] = 120 /\ n >= 4 /\ HexVal(t[3]) >= 0 /\ HexVal(t[4]) >= 0
            THEN ScanQuoted(SubSeq(t, 5, n),
                            Append(acc, 16 * HexVal(t[3]) + HexVal(t[4])))
       ELSE IF t[2] = 117 /\ n >= 6 /\ t[3] = 48 /\ t[4] = 48
                          /\ HexVal(t[5]) >= 0 /\ HexVal(t[6]) >= 0
            THEN ScanQuoted(SubSeq(t, 7, n),
                            acc \o EncodeRune(16 * HexVal(t[5]) + HexVal(t[6])))
       ELSE [ok |-> FALSE, bytes |-> <<>>]

\* The name field of an entry line as WriteTerse writes it.
QuoteInner(s) == QuoteBytes(Bytes(s))

\* The name fromTerseFormat reads from the text after the tab ("" when the
\* scan fails).
UnquoteInner(t) == LET r == ScanQuoted(t, <<>>) IN IF r.ok THEN Str(r.bytes) ELSE ""

(****************************** the AppList ********************************)
nullItem == [Name |-> "", ID |-> 0]
NoList   == [AsOf |-> 0, Count |-> 0 - 1,
             ByAppNum |-> <<>>, ByNameMC |-> <<>>, ByNameUC |-> <<>>]
NewList(asOf) == [AsOf |-> asOf, Count |-> 0,
                  ByAppNum |-> <<>>, ByNameMC |-> <<>>, ByNameUC |-> <<>>]

\* The appids maybeInsert reports to the bug log.
Surprising(number) == number < 0 \/ number > maxAppID

\* maybeInsert that keeps every entry.
maybeInsertAny(number, name, al) ==
  [al EXCEPT !.ByAppNum = Append(@, [Name |-> name, ID |-> number]),
             !.ByNameMC = Append(@, [Name |-> name, ID |-> number]),
             !.ByNameUC = Append(@, [Name |-> ToUpper(name), ID |-> number])]

\* maybeInsert: drop id 0 silently, drop out-of-range ids, else append the
\* entry to the three lists, with the name uppercased in ByNameUC.
maybeInsert(number, name, al) ==
  IF number = 0 THEN al
  ELSE IF Surprising(number) THEN al
  ELSE [al EXCEPT !.ByAppNum = Append(@, [Name |-> name, ID |-> number]),
                  !.ByNameMC = Append(@, [Name |-> name, ID |-> number]),
                  !.ByNameUC = Append(@, [Name |-> ToUpper(name), ID |-> number])]

\* sort.Sort(listByAppNum(l)): insertion sort on Less(i,j) = l[i].ID < l[j].ID
\* (what sort.Sort does on a short slice).
RECURSIVE InsertByID(_, _)
InsertByID(s, e) ==
  IF s = <<>> THEN <<e>>
  ELSE IF e.ID < s[Len(s)].ID
       THEN Append(InsertByID(SubSeq(s, 1, Len(s) - 1), e), s[Len(s)])
       ELSE Append(s, e)

\* SortByAppNum that leaves the slice as it is.
SortNothing(s) == s

RECURSIVE SortByAppNum(_)
SortByAppNum(s) ==
  IF s = <<>> THEN <<>>
  ELSE InsertByID(SortByAppNum(SubSeq(s, 1, Len(s) - 1)), s[Len(s)])

\* finishAppList without the sentinels.
finishAppListBare(al) ==
  [al EXCEPT !.Count = Len(al.ByAppNum),
             !.ByAppNum = SortByAppNum(al.ByAppNum),
             !.ByNameMC = SortByAppNum(al.ByNameMC),
             !.ByNameUC = SortByAppNum(al.ByNameUC)]

\* finishAppList: set Count, sort each list with listByAppNum, append the
\* sentinel to each.
finishAppList(al) ==
  [al EXCEPT !.Count = Len(al.ByAppNum),
             !.ByAppNum = Append(SortByAppNum(al.ByAppNum), nullItem),
             !.ByNameMC = Append(SortByAppNum(al.ByNameMC), nullItem),
             !.ByNameUC = Append(SortByAppNum(al.ByNameUC), nullItem)]

\* fixCP1252: every 0xC2 and the byte after it are replaced (0x99 by the
\* trade-mark sign, 0x92 by the right quote) or kept (with a bug report for a
\* code below 0xA0); reading the byte after a final 0xC2 is out of range.
RECURSIVE fixCP1252(_, _, _)
fixCP1252(bs, newB, bug) ==
  LET posC2 == IndexByte(bs, 194) IN
  IF posC2 = 0 THEN [panic |-> FALSE, bytes |-> newB \o bs, bug |-> bug]
  ELSE IF posC2 + 1 > Len(bs) THEN [panic |-> TRUE, bytes |-> <<>>, bug |-> bug]
  ELSE LET code == bs[posC2 + 1]
           out  == IF code = 153 THEN <<226, 132, 162>>
                   ELSE IF code = 146 THEN <<226, 128, 153>>
                   ELSE <<194, code>>
       IN fixCP1252(SubSeq(bs, posC2 + 2, Len(bs)),
                    newB \o SubSeq(bs, 1, posC2 - 1) \o out,
                    bug \/ (code # 153 /\ code # 146 /\ code < 160))

\* FromJSON lines 65-72: name[len(name)-1] is out of range for an empty name;
\* a final tab is dropped; a name with a 0xC2 goes through fixCP1252.
LaterName(name) ==
  LET bs == Bytes(name) IN
  IF bs = <<>> THEN [panic |-> TRUE, name |-> "", bug |-> FALSE]
  ELSE LET cut == IF bs[Len(bs)] = 9 THEN SubSeq(bs, 1, Len(bs) - 1) ELSE bs
           fix == IF IndexByte(cut, 194) > 0 THEN fixCP1252(cut, <<>>, FALSE)
                  ELSE [panic |-> FALSE, bytes |-> cut, bug |-> FALSE]
       IN IF fix.panic THEN [panic |-> TRUE, name |-> "", bug |-> fix.bug]
          ELSE [panic |-> FALSE, name |-> Str(fix.bytes), bug |-> fix.bug]

\* The bodies the remote endpoint can answer with.  pairs are the (appid,
\* name) values the scans yield, in order; kind "json": the list is closed
\* by ]}} after them; "garbage": what follows them matches neither ]}} nor
\* another entry; "broken": the read breaks after them, before the name of
\* another entry is complete (fmt.Fscanf has scanned fewer than two values);
\* "ioerr": the read breaks just after the name of the last of them.
\* An empty list of pairs is a body whose start does not scan as an entry.
Pair(id, nm) == [ID |-> id, Name |-> nm]
Bodies == { [kind |-> "json", pairs |-> <<Pair(10, "A"), Pair(5, "B")>>],
            [kind |-> "json", pairs |-> <<Pair(10, "A"), Pair(7, "")>>],
            [kind |-> "garbage", pairs |-> <<>>],
            [kind |-> "ioerr", pairs |-> <<Pair(10, "A")>>] }

ParseFailure(bug) == [err |-> "JSONParseError", al |-> NoList, bug |-> bug]

\* The loop of FromJSON (lines 48-76) over the entries after the first.
RECURSIVE ScanLater(_, _, _, _)
ScanLater(pairs, kind, al, bug) ==
  IF pairs = <<>>
  THEN IF kind = "json" THEN [err |-> "none", al |-> finishAppList(al), bug |-> bug]
       ELSE ParseFailure(TRUE)
  ELSE IF kind = "ioerr" /\ Len(pairs) = 1
  THEN [err |-> "ReadError", al |-> NoList, bug |-> bug]
  ELSE LET e  == Head(pairs)
           nm == LaterName(e.Name)
       IN IF nm.panic
          THEN [err |-> "panic: index out of range", al |-> NoList,
                bug |-> bug \/ nm.bug]
          ELSE ScanLater(Tail(pairs), kind, maybeInsert(e.ID, nm.name, al),
                         bug \/ nm.bug \/ Surprising(e.ID))

\* FromJSON(r, ...): AsOf is time.Now() on entry; the first entry is scanned
\* with formatStart and inserted as it is, the others go through the loop.
\* bug tells whether logBug was called.
FromJSON(body, now) ==
  IF body.pairs = <<>> THEN ParseFailure(TRUE)
  ELSE IF body.kind = "ioerr" /\ Len(body.pairs) = 1
  THEN [err |-> "ReadError", al |-> NoList, bug |-> FALSE]
  ELSE LET e == Head(body.pairs)
       IN ScanLater(Tail(body.pairs), body.kind,
                    maybeInsert(e.ID, e.Name, NewList(now)), Surprising(e.ID))

\* readLine: the line without its terminator.  The line feed is cut only
\* from a line of more than one byte, the carriage return before it only
\* from a line of more than two.
readLine(raw) ==
  LET n == Len(raw) IN
  IF n > 1 /\ raw[n] = 10
  THEN IF n > 2 /\ raw[n - 1] = 13 THEN SubSeq(raw, 1, n - 2)
       ELSE SubSeq(raw, 1, n - 1)
  ELSE raw

IsDigit(b) == b >= 48 /\ b <= 57

\* The length of the leading run of decimal digits of a line.
RECURSIVE DigitRun(_)
DigitRun(line) ==
  IF line = <<>> \/ ~IsDigit(line[1]) THEN 0 ELSE 1 + DigitRun(Tail(line))

\* An int64 as four 16-bit limbs, the least significant first; zero.
Zero64 == <<0, 0, 0, 0>>

\* number *= 10; number += d on an int64: the carry out of the top limb is
\* lost.
MulAdd64(x, d) ==
  LET v1 == x[1] * 10 + d
      v2 == x[2] * 10 + (v1 \div 65536)
      v3 == x[3] * 10 + (v2 \div 65536)
      v4 == x[4] * 10 + (v3 \div 65536)
  IN <<v1 % 65536, v2 % 65536, v3 % 65536, v4 % 65536>>

\* The loop of lines 232-235 over a run of digits.
RECURSIVE Accumulate(_, _)
Accumulate(digits, x) ==
  IF digits = <<>> THEN x
  ELSE Accumulate(Tail(digits), MulAdd64(x, Head(digits) - 48))

\* number <= 0 || number > maxAppID on an int64 (negative when the top bit
\* is set), and the value of an int64 that passes the test.
BadNumber(x) ==
  \/ x[4] >= 32768
  \/ x = Zero64
  \/ x[4] # 0 \/ x[3] # 0 \/ x[2] >= 32768

Small(x) == x[2] * 65536 + x[1]

\* Lines 230-248 on one line: the number, the name, and the line as the
\* error would show it (with the tab overwritten and a quote appended once
\* the tab was found).
ParseLine(line) ==
  LET i      == DigitRun(line)
      number == Accumulate(SubSeq(line, 1, i), Zero64)
      tab    == i > 0 /\ i < Len(line) /\ line[i + 1] = 9
      rest   == SubSeq(line, i + 2, Len(line))
      name   == IF tab THEN UnquoteInner(rest) ELSE ""
      shown  == IF tab THEN SubSeq(line, 1, i) \o <<34>> \o rest \o <<34>>
                ELSE line
  IN [bad |-> BadNumber(number) \/ name = "",
      number |-> IF BadNumber(number) THEN 0 ELSE Small(number),
      name |-> name, shown |-> shown]

\* What fromTerseFormat returns: a list, or an error with the line number
\* and line of a TerseFormatError.
TerseOK(al) == [err |-> "none", al |-> al, LineNum |-> 0, Line |-> <<>>]

TerseFail(err, n, line) == [err |-> err, al |-> NoList, LineNum |-> n, Line |-> line]

\* The loop of fromTerseFormat over the lines after the header, n lines
\* having been read: an empty line and a line starting with # are passed
\* over, the first bad line is a TerseFormatError, the others are inserted.
RECURSIVE TerseLines(_, _, _)
TerseLines(units, al, n) ==
  IF units = <<>> THEN TerseOK(finishAppList(al))
  ELSE LET u    == Head(units)
           line == readLine(u.raw)
           e    == ParseLine(line)
       IN IF u.kind = "hdr" THEN TerseFail("TerseFormatError", n + 1, <<34>>)
          ELSE IF line = <<>> \/ line[1] = 35
          THEN TerseLines(Tail(units), al, n + 1)
          ELSE IF e.bad THEN TerseFail("TerseFormatError", n + 1, e.shown)
          ELSE TerseLines(Tail(units), maybeInsert(e.number, e.name, al), n + 1)

\* fromTerseFormat on what a reader finds in the file.
fromTerseFormat(data) ==
  IF data = <<>> THEN TerseFail("ReadError:empty", 0, <<>>)
  ELSE IF data[1].kind # "hdr" THEN TerseFail("TerseFormatError:header", 1, readLine(data[1].raw))
  ELSE TerseLines(Tail(data), NewList(TimeUnix(data[1].sec)), 1)

\* TerseUnit with the index of the entry off by one.
TerseUnitNext(al, i) ==
  IF i = 0 THEN HdrUnit(Unix(al.AsOf))
  ELSE LineUnit(al.ByAppNum[i + 1].ID, QuoteInner(al.ByAppNum[i + 1].Name))

\* What WriteTerse hands to its bufio.Writer, in order: the header with
\* AsOf formatted to the second, then ByAppNum[0 .. Count-1].
TerseUnit(al, i) ==
  IF i = 0 THEN HdrUnit(Unix(al.AsOf))
  ELSE LineUnit(al.ByAppNum[i].ID, QuoteInner(al.ByAppNum[i].Name))

TerseOutput(al) == [i \in 1..(al.Count + 1) |-> TerseUnit(al, i - 1)]

(************************** a call's local state ***************************)
\* The locals of one FromCacheOrWeb call, and what the call is remembered
\* by once it has returned (err # "pending").
\* maxAge .. i are the locals of FromCacheOrWeb, fetchAndCache, WriteTerseFile
\* and WriteTerse; got records that the call issued its HTTP GET; knownBad is
\* the set of files already refused when the call listed the directory; err
\* and ret are what the call returned, info the fields of the returned error.
\* The fields URL and StatusCode of a WebError and Source of a ReadError or
\* JSONParseError returned by the fetch path; the zero values elsewhere.
NoInfo == [URL |-> "", StatusCode |-> 0, Source |-> ""]

NoCall ==
  [maxAge |-> 0, cutoff |-> 0, newestFile |-> NoName, latestTime |-> 0,
   got |-> FALSE, knownBad |-> {},
   unixTime |-> 0, al |-> NoList, path |-> NoName,
   buf |-> <<>>, bufErr |-> FALSE, err0 |-> FALSE, i |-> 0,
   err |-> "none", info |-> NoInfo, ret |-> NoList]

\* return (al, err) from FromCacheOrWeb: the locals are gone.
Return(c, err, al) ==
  [NoCall EXCEPT !.err = err, !.ret = al, !.got = c.got, !.knownBad = c.knownBad]

\* return (nil, err) with an error that has the fields info.
ReturnInfo(c, err, info) == [Return(c, err, NoList) EXCEPT !.info = info]

\* logBug: append to BUGS.log in the cache directory, creating it if absent.
logBug(d) ==
  IF BugsLog \in DOMAIN d THEN d ELSE (BugsLog :> OldFile(<<>>)) @@ d

(****************************** FromCacheOrWeb *****************************)
\* The loop over the directory entries: keep the name with the largest
\* parsed timestamp that exceeds latestTime, which starts at 0.
RECURSIVE ScanEntries(_, _)
ScanEntries(entries, best) ==
  IF entries = {} THEN best
  ELSE LET fi == CHOOSE x \in entries : TRUE
           t  == ParseInt(fi)
       IN ScanEntries(entries \ {fi},
            IF regexpCacheName(fi) /\ ~t.err /\ t.val > best.latestTime
            THEN [newestFile |-> fi, latestTime |-> t.val]
            ELSE best)

Newest(entries) == ScanEntries(entries, [newestFile |-> NoName, latestTime |-> 0])

\* MustFetch with the comparison slipped to <=.
MustFetchAtCutoff(sel, cutoff) == sel.newestFile = NoName \/ sel.latestTime <= cutoff

\* if newestFile == nil || latestTime < cutoff { return fetchAndCache() }
MustFetch(sel, cutoff) == sel.newestFile = NoName \/ sel.latestTime < cutoff

\* Lines 80-106: open and list the directory, compute the cutoff, pick the
\* newest cache file and choose between the cache and the web.
Scan(p, h, fault) ==
  /\ pc[p] = "idle"
  /\ ncalls' = ncalls + 1
  /\ LET nowSec == Unix(clock)
         cutoff == nowSec - SecPerHour * h
         sel    == Newest(DOMAIN dir)
         c0     == [NoCall EXCEPT !.maxAge = h, !.cutoff = cutoff,
                                  !.knownBad = refused, !.err = "pending"]
     IN IF fault # "none"
        THEN /\ call' = [call EXCEPT ![p] = Return(c0, fault, NoList)]
             /\ pc' = pc
        ELSE /\ call' = [call EXCEPT ![p] =
                           [c0 EXCEPT !.newestFile = sel.newestFile,
                                      !.latestTime = sel.latestTime]]
             /\ pc' = [pc EXCEPT ![p] =
                         IF MustFetch(sel, cutoff) THEN "get" ELSE "load"]
  /\ UNCHANGED <<ix, clock, dir, refused>>

\* AfterLoad without the cross-check: the header time is trusted.
AfterLoadTrusting(r, latestTime) ==
  IF r.err # "none" THEN [err |-> r.err, al |-> NoList, next |-> "idle"]
  ELSE [err |-> "none", al |-> r.al, next |-> "idle"]

\* AfterLoad that falls back to the web when the load fails.
AfterLoadRefetching(r, latestTime) ==
  IF r.err # "none" THEN [err |-> r.err, al |-> NoList, next |-> "get"]
  ELSE IF Unix(r.al.AsOf) # latestTime
       THEN [err |-> "CacheError:cannot use latest cache file",
             al |-> NoList, next |-> "idle"]
       ELSE [err |-> "none", al |-> r.al, next |-> "idle"]

\* What the call does with the result of FromTerseFile (lines 108-122):
\* return its error, or refuse a header time that differs from the name's,
\* or return the list.  Every outcome ends the call.
AfterLoad(r, latestTime) ==
  IF r.err # "none" THEN [err |-> r.err, al |-> NoList, next |-> "idle"]
  ELSE IF Unix(r.al.AsOf) # latestTime
       THEN [err |-> "CacheError:cannot use latest cache file",
             al |-> NoList, next |-> "idle"]
       ELSE [err |-> "none", al |-> r.al, next |-> "idle"]

\* Lines 107-122 with FromTerseFile: open the newest file, read it as it is
\* on disk now, cross-check the header time against the name.
Load(p, fault) ==
  /\ pc[p] = "load"
  /\ LET c == call[p]
         f == dir[c.newestFile]
         r == IF fault # "none" THEN [err |-> fault, al |-> NoList]
              ELSE fromTerseFormat(f.data)
         a == AfterLoad(r, c.latestTime)
         bad == a.err = "CacheError:cannot use latest cache file"
     IN /\ call' = [call EXCEPT ![p] =
                      IF a.next = "idle" THEN Return(c, a.err, a.al) ELSE c]
        /\ pc' = [pc EXCEPT ![p] = a.next]
        /\ dir' = IF bad THEN logBug(dir) ELSE dir
        /\ refused' = IF bad THEN refused \cup {c.newestFile} ELSE refused
  /\ UNCHANGED <<ix, clock, ncalls>>

(******************************* fetchAndCache *****************************)
\* isHTTPerror that takes only the 4xx codes for errors.
isHTTPerrorClient(code) == code \div 100 = 4

isHTTPerror(code) == code \div 100 # 2

StatusCodes == {200, 404, 500}

\* Lines 136-146: http.Get, the status check, and the clock read that
\* names the new cache file.
Get(p, transportErr, code) ==
  /\ pc[p] = "get"
  /\ LET c == [call[p] EXCEPT !.got = TRUE]
     IN IF transportErr
        THEN /\ call' = [call EXCEPT ![p] =
                          ReturnInfo(c, "WebError:GET", [NoInfo EXCEPT !.URL = URL])]
             /\ pc' = [pc EXCEPT ![p] = "idle"]
        ELSE IF isHTTPerror(code)
        THEN /\ call' = [call EXCEPT ![p] =
                          ReturnInfo(c, "WebError:status",
                                     [NoInfo EXCEPT !.URL = URL, !.StatusCode = code])]
             /\ pc' = [pc EXCEPT ![p] = "idle"]
        ELSE /\ call' = [call EXCEPT ![p] = [c EXCEPT !.unixTime = Unix(clock)]]
             /\ pc' = [pc EXCEPT ![p] = "json"]
  /\ UNCHANGED <<ix, clock, dir, ncalls, refused>>

\* Line 148: FromJSON(resp.Body, ...), which reads the clock for AsOf.  A
\* run-time panic in FromJSON ends the process: no step follows it.
Json(p, body) ==
  /\ pc[p] = "json"
  /\ LET r == FromJSON(body, clock)
     IN /\ dir' = IF r.bug THEN logBug(dir) ELSE dir
        /\ IF r.err = "panic: index out of range"
           THEN /\ call' = [call EXCEPT ![p] = Return(@, r.err, NoList)]
                /\ pc' = [pc EXCEPT ![p] = "panicked"]
           ELSE IF r.err # "none"
           THEN /\ call' = [call EXCEPT ![p] =
                             ReturnInfo(@, r.err, [NoInfo EXCEPT !.Source = "Steam web API"])]
                /\ pc' = [pc EXCEPT ![p] = "idle"]
           ELSE /\ call' = [call EXCEPT ![p] = [@ EXCEPT !.al = r.al]]
                /\ pc' = [pc EXCEPT ![p] = "create"]
  /\ UNCHANGED <<ix, clock, ncalls, refused>>

(****************************** WriteTerseFile *****************************)
\* OpenExcl without O_EXCL: an existing file is opened for writing as it is.
OpenNoExcl(d, path, p, src, fault) ==
  IF fault THEN [err |-> "WriteError:create", dir |-> d]
  ELSE IF path \in DOMAIN d
       THEN [err |-> "none", dir |-> [d EXCEPT ![path].writers = @ \cup {p}]]
       ELSE [err |-> "none", dir |-> (path :> File(<<>>, src, {p})) @@ d]

\* os.OpenFile(path, O_CREATE|O_WRONLY|O_EXCL, 0o666) by process p, which
\* sets out to write src: fails if the name exists (or the create fails).
OpenExcl(d, path, p, src, fault) ==
  IF path \in DOMAIN d THEN [err |-> "WriteError:create:exists", dir |-> d]
  ELSE IF fault THEN [err |-> "WriteError:create", dir |-> d]
  ELSE [err |-> "none", dir |-> (path :> File(<<>>, src, {p})) @@ d]

\* Lines 153-156 and WriteTerseFile lines 11-16.
Create(p, fault) ==
  /\ pc[p] = "create"
  /\ LET c    == call[p]
         path == formatCacheName(c.unixTime)
         o    == OpenExcl(dir, path, p, TerseOutput(c.al), fault)
     IN /\ dir' = o.dir
        /\ IF o.err = "none"
           THEN /\ call' = [call EXCEPT ![p] = [c EXCEPT !.path = path]]
                /\ pc' = [pc EXCEPT ![p] = "write"]
           ELSE /\ call' = [call EXCEPT ![p] = Return(c, o.err, NoList)]
                /\ pc' = [pc EXCEPT ![p] = "idle"]
  /\ UNCHANGED <<ix, clock, ncalls, refused>>

\* bufio.Writer.Flush: hand the buffer to the file; a failed write leaves the
\* file as it was and makes the writer's error sticky.
BufFlush(b, ok) ==
  IF b.bufErr \/ b.buf = <<>> THEN b
  ELSE IF ok THEN [b EXCEPT !.data = @ \o b.buf, !.buf = <<>>]
       ELSE [b EXCEPT !.bufErr = TRUE]

\* bufio.Writer.Write of one unit: flush first when the buffer is full.
BufWrite(b, unit, ok) ==
  IF b.bufErr THEN b
  ELSE LET b1 == IF Len(b.buf) + 1 > BufCap THEN BufFlush(b, ok) ELSE b
       IN IF b1.bufErr THEN b1 ELSE [b1 EXCEPT !.buf = Append(@, unit)]

Buf(c, d) == [buf |-> c.buf, bufErr |-> c.bufErr, data |-> d[c.path].data]

\* WriteTerse lines 41-49: the header (whose error is kept in err), then the
\* entry lines while err == nil (their errors are dropped).
Write(p, ok) ==
  /\ pc[p] = "write"
  /\ LET c  == call[p]
         b  == BufWrite(Buf(c, dir), TerseUnit(c.al, c.i), ok)
         e0 == IF c.i = 0 THEN b.bufErr ELSE c.err0
         last == e0 \/ c.i >= c.al.Count
     IN /\ (ok \/ (~c.bufErr /\ Len(c.buf) + 1 > BufCap))
        /\ call' = [call EXCEPT ![p] = [c EXCEPT !.buf = b.buf, !.bufErr = b.bufErr,
                                                 !.err0 = e0, !.i = c.i + 1]]
        /\ dir' = [dir EXCEPT ![c.path].data = b.data]
        /\ pc' = [pc EXCEPT ![p] = IF last THEN "flush" ELSE "write"]
  /\ UNCHANGED <<ix, clock, ncalls, refused>>

\* WriteTerse lines 39 and 51-55: the deferred Flush, whose result is
\* dropped, and the return of the header's error.
Flush(p, ok) ==
  /\ pc[p] = "flush"
  /\ LET c == call[p]
         b == BufFlush(Buf(c, dir), ok)
     IN /\ (ok \/ (~c.bufErr /\ c.buf # <<>>))
        /\ dir' = [dir EXCEPT ![c.path].data = b.data]
        /\ IF c.err0
           THEN /\ call' = [call EXCEPT ![p] = Return(c, "WriteError:write to", NoList)]
                /\ pc' = [pc EXCEPT ![p] = "idle"]
           ELSE /\ call' = [call EXCEPT ![p] = [c EXCEPT !.buf = b.buf,
                                                         !.bufErr = b.bufErr]]
                /\ pc' = [pc EXCEPT ![p] = "sync"]
  /\ UNCHANGED <<ix, clock, ncalls, refused>>

\* WriteTerseFile lines 23-34 and fetchAndCache lines 157-162.
SyncClose(p, fault) ==
  /\ pc[p] = "sync"
  /\ call' = [call EXCEPT ![p] =
                IF fault = "none" THEN Return(@, "none", @.al)
                ELSE Return(@, fault, NoList)]
  /\ pc' = [pc EXCEPT ![p] = "idle"]
  /\ UNCHANGED <<ix, clock, dir, ncalls, refused>>

(********************************* the clock *******************************)
Tick ==
  /\ clock % HourTicks < MaxSubTicks
  /\ clock' = clock + 1
  /\ UNCHANGED <<ix, dir, pc, call, ncalls, refused>>

HourPass ==
  /\ clock \div HourTicks < MaxHours
  /\ clock' = clock + HourTicks
  /\ UNCHANGED <<ix, dir, pc, call, ncalls, refused>>

(***************************** initial states ******************************)
GoodFile(sec) == OldFile(<<HdrUnit(sec), LineUnit(5, QuoteInner("B"))>>)

\* Cache directories a call can find: empty; only the bug log; a file stamped
\* 0; an old and a new file; an over-long digit run beside an old file; a
\* renamed file; a new file with a bad line beside an old good one; a new
\* file with a bad header.
InitDirs ==
  { <<>>,
    (BugsLog :> OldFile(<<>>)),
    (CacheName(0) :> GoodFile(0)),
    (CacheName(1) :> GoodFile(1)) @@ (CacheName(SecPerHour) :> GoodFile(SecPerHour)),
    (OverlongName :> GoodFile(1)) @@ (CacheName(1) :> GoodFile(1)),
    (CacheName(SecPerHour) :> GoodFile(SecPerHour - 1)),
    (CacheName(1) :> GoodFile(1))
       @@ (CacheName(SecPerHour) :> OldFile(<<HdrUnit(SecPerHour), BadUnit>>)),
    (CacheName(SecPerHour) :> OldFile(<<BadUnit>>)) }

\* No list is being built or searched.
NoIx == [stage |-> "none", body |-> [kind |-> "json", pairs |-> <<>>],
         err |-> "none", al |-> NoList, bug |-> FALSE,
         LineNum |-> 0, Line |-> <<>>, back |-> TerseOK(NoList),
         q |-> [f |-> "none", id |-> 0, name |-> ""],
         res |-> [i |-> 0, name |-> "", id |-> 0, panic |-> FALSE]]

InitWith(dirs) ==
  /\ clock = HourTicks
  /\ dir \in dirs
  /\ pc = [p \in Procs |-> "idle"]
  /\ call = [p \in Procs |-> NoCall]
  /\ ncalls = 0
  /\ refused = {}
  /\ ix = NoIx

Init == InitWith(InitDirs)

\* The directories of the two-process runs: empty, or one old good file.
RaceDirs == { <<>>, (CacheName(1) :> GoodFile(1)) }

InitRace == InitWith(RaceDirs)

ScanFaults  == {"none", "CacheError:open directory", "CacheError:read directory"}
LoadFaults  == {"none", "CacheError:open file", "ReadError"}
CloseFaults == {"none", "WriteError:finish writing", "WriteError:close new"}

\* The steps of a call after the directory scan.
Step(p) ==
  \/ \E f \in LoadFaults : Load(p, f)
  \/ \E t \in BOOLEAN, code \in StatusCodes : Get(p, t, code)
  \/ \E body \in Bodies : Json(p, body)
  \/ \E f \in BOOLEAN : Create(p, f)
  \/ \E ok \in BOOLEAN : Write(p, ok)
  \/ \E ok \in BOOLEAN : Flush(p, ok)
  \/ \E f \in CloseFaults : SyncClose(p, f)

\* One process making up to MaxCalls calls, one after the other.
Main == "p1"

Next ==
  \/ \E h \in 0..MaxAgeHours, f \in ScanFaults : ncalls < MaxCalls /\ Scan(Main, h, f)
  \/ Step(Main)
  \/ Tick
  \/ HourPass

Spec == Init /\ [][Next]_vars

\* Two processes sharing the cache directory, each making one call within
\* the same hour.
NextRace ==
  \/ \E p \in Procs, h \in 0..MaxAgeHours, f \in ScanFaults :
        call[p] = NoCall /\ Scan(p, h, f)
  \/ \E p \in Procs : Step(p)
  \/ Tick

SpecRace == InitRace /\ [][NextRace]_vars

(*************************** searching the lists ***************************)
\* l[j] on a Go slice, and whether j is an index of it.
At(l, j) == l[j + 1]

InRange(l, j) == j >= 0 /\ j < Len(l)

\* sort.Search(n, f): the binary search for the least index in [0, n) at which
\* f holds, n if there is none; f is given as a function on 0 .. n-1.
RECURSIVE Search(_, _, _)
Search(i, j, f) ==
  IF i < j
  THEN LET h == (i + j) \div 2
       IN IF ~f[h] THEN Search(h + 1, j, f) ELSE Search(i, h, f)
  ELSE i

\* What a FindXForY method returns when the element at i does not match, and
\* the run-time panic of an index out of range.
NotFound(i) == [i |-> i, name |-> "", id |-> 0, panic |-> FALSE]

OutOfRange(i) == [i |-> i, name |-> "", id |-> 0, panic |-> TRUE]

\* FindNameForNumber with the search test slipped to >.
FindNameForNumberAfter(al, targetID) ==
  LET i == Search(0, al.Count,
                  [j \in 0..(al.Count - 1) |-> At(al.ByAppNum, j).ID > targetID])
  IN IF ~InRange(al.ByAppNum, i) THEN OutOfRange(i)
     ELSE IF At(al.ByAppNum, i).ID = targetID
          THEN [NotFound(i) EXCEPT !.name = At(al.ByAppNum, i).Name]
          ELSE NotFound(i)

FindNameForNumber(al, targetID) ==
  LET i == Search(0, al.Count,
                  [j \in 0..(al.Count - 1) |-> At(al.ByAppNum, j).ID >= targetID])
  IN IF ~InRange(al.ByAppNum, i) THEN OutOfRange(i)
     ELSE IF At(al.ByAppNum, i).ID = targetID
          THEN [NotFound(i) EXCEPT !.name = At(al.ByAppNum, i).Name]
          ELSE NotFound(i)

FindNumberForName(al, targetName) ==
  LET i == Search(0, al.Count,
                  [j \in 0..(al.Count - 1) |->
                     ~StrLess(At(al.ByNameMC, j).Name, targetName)])
  IN IF ~InRange(al.ByNameMC, i) THEN OutOfRange(i)
     ELSE IF At(al.ByNameMC, i).Name = targetName
          THEN [NotFound(i) EXCEPT !.id = At(al.ByNameMC, i).ID]
          ELSE NotFound(i)

FindNumberForNameUC(al, name) ==
  LET targetName == ToUpper(name)
      i == Search(0, al.Count,
                  [j \in 0..(al.Count - 1) |->
                     ~StrLess(ToUpper(At(al.ByNameUC, j).Name), targetName)])
  IN IF ~InRange(al.ByNameUC, i) THEN OutOfRange(i)
     ELSE IF At(al.ByNameUC, i).Name = targetName
          THEN [NotFound(i) EXCEPT !.id = At(al.ByNameUC, i).ID]
          ELSE NotFound(i)

(************************* building and searching **************************)
\* SpecIndex: the readers and the FindXForY methods as functions.  A body is
\* drawn at the start; it is read by FromJSON, or its entries are read by
\* fromTerseFormat as the lines of a terse-format text; a list that was read
\* is searched, or written by WriteTerse and read back.
MaxPairs == 3

\* The entries a body is made of: two ids in either order, an id shared by
\* two names that differ in case, the ids maybeInsert drops, an empty name,
\* names ending in a tab, and names with a 0xC2.
IndexPairs ==
  { Pair(5, "B"), Pair(10, "A"), Pair(10, "a"), Pair(0, "A"), Pair(0 - 1, "A"),
    Pair(7, ""), Pair(7, "A<TAB>"), Pair(7, "<TAB>"), Pair(7, "A<C2>"),
    Pair(7, "<C2><99>") }

PairSeqs == UNION {[1..n -> IndexPairs] : n \in 0..MaxPairs}

\* The lines of a terse-format text after its header: 5<TAB>B and
\* 10<TAB>A<CR>, a line feed and a carriage return and line feed alone, a
\* comment, an appid of 0, digits without a tab, a name with a bad escape,
\* the digits of 2^31 and the digits of 2^64 + 5.
IndexLines ==
  { LineUnit(5, QuoteInner("B")),
    RawUnit(<<49, 48, 9, 65, 13, 10>>),
    RawUnit(<<10>>),
    RawUnit(<<13, 10>>),
    RawUnit(<<35, 99, 10>>),
    LineUnit(0, QuoteInner("A")),
    RawUnit(<<53, 66, 10>>),
    RawUnit(<<53, 9, 92, 113, 10>>),
    RawUnit(<<50, 49, 52, 55, 52, 56, 51, 54, 52, 56, 9, 65, 10>>),
    RawUnit(<<49, 56, 52, 52, 54, 55, 52, 52, 48, 55, 51, 55, 48, 57, 53, 53,
              49, 54, 50, 49, 9, 65, 10>>) }

LineSeqs == UNION {[1..n -> IndexLines] : n \in 0..MaxPairs}

IndexBodies ==
  {b \in [kind : {"json", "garbage", "broken", "ioerr"}, pairs : PairSeqs] :
      b.kind = "ioerr" => b.pairs # <<>>}
    \cup [kind : {"lines"}, pairs : LineSeqs]

TargetIDs == {0, 4, 5, 7, 10, 11}

InitIndex ==
  /\ clock = HourTicks + 1
  /\ dir = <<>>
  /\ pc = [p \in Procs |-> "idle"]
  /\ call = [p \in Procs |-> NoCall]
  /\ ncalls = 0
  /\ refused = {}
  /\ ix \in {[NoIx EXCEPT !.stage = "input", !.body = b] : b \in IndexBodies}

\* al, err := FromJSON(body)
ReadJSON ==
  /\ ix.stage = "input"
  /\ ix.body.kind # "lines"
  /\ LET r == FromJSON(ix.body, clock)
     IN ix' = [ix EXCEPT !.stage = "json", !.err = r.err, !.al = r.al,
                         !.bug = r.bug]
  /\ UNCHANGED <<clock, dir, pc, call, ncalls, refused>>

\* The terse-format text with a header for the current second and one line
\* for each entry of a body.
TerseText(pairs, now) ==
  <<HdrUnit(Unix(now))>>
    \o [k \in 1..Len(pairs) |-> LineUnit(pairs[k].ID, QuoteInner(pairs[k].Name))]

\* al, err := FromTerseFormat(text)
ReadTerse ==
  /\ ix.stage = "input"
  /\ ix.body.kind = "json"
  /\ LET r == fromTerseFormat(TerseText(ix.body.pairs, clock))
     IN ix' = [ix EXCEPT !.stage = "terse", !.err = r.err, !.al = r.al]
  /\ UNCHANGED <<clock, dir, pc, call, ncalls, refused>>

\* al, err := FromTerseFormat(text) on a header for the current second and
\* the lines drawn.
ReadLines ==
  /\ ix.stage = "input"
  /\ ix.body.kind = "lines"
  /\ LET r == fromTerseFormat(<<HdrUnit(Unix(clock))>> \o ix.body.pairs)
     IN ix' = [ix EXCEPT !.stage = "lines", !.err = r.err, !.al = r.al,
                         !.LineNum = r.LineNum, !.Line = r.Line]
  /\ UNCHANGED <<clock, dir, pc, call, ncalls, refused>>

\* al.WriteTerse(w) and FromTerseFormat on what was written.
WriteRead ==
  /\ ix.stage = "json"
  /\ ix.err = "none"
  /\ ix' = [ix EXCEPT !.stage = "reread",
                      !.back = fromTerseFormat(TerseOutput(ix.al))]
  /\ UNCHANGED <<clock, dir, pc, call, ncalls, refused>>

Readable == ix.stage \in {"json", "terse"} /\ ix.err = "none"

FindByNumber(t) ==
  /\ Readable
  /\ ix' = [ix EXCEPT !.stage = "found", !.q = [f |-> "FindNameForNumber", id |-> t, name |-> ""],
                      !.res = FindNameForNumber(ix.al, t)]
  /\ UNCHANGED <<clock, dir, pc, call, ncalls, refused>>

FindByName(n) ==
  /\ Readable
  /\ ix' = [ix EXCEPT !.stage = "found", !.q = [f |-> "FindNumberForName", id |-> 0, name |-> n],
                      !.res = FindNumberForName(ix.al, n)]
  /\ UNCHANGED <<clock, dir, pc, call, ncalls, refused>>

FindByNameUC(n) ==
  /\ Readable
  /\ ix' = [ix EXCEPT !.stage = "found", !.q = [f |-> "FindNumberForNameUC", id |-> 0, name |-> n],
                      !.res = FindNumberForNameUC(ix.al, n)]
  /\ UNCHANGED <<clock, dir, pc, call, ncalls, refused>>

NextIndex ==
  \/ ReadJSON
  \/ ReadTerse
  \/ ReadLines
  \/ WriteRead
  \/ \E t \in TargetIDs : FindByNumber(t)
  \/ \E n \in Names : FindByName(n)
  \/ \E n \in Names : FindByNameUC(n)

SpecIndex == InitIndex /\ [][NextIndex]_vars


(***************************************************************************)
(*                              The claims                                 *)
(***************************************************************************)
\* The names that match the cache-file pattern.
Matching(names) == {n \in names : regexpCacheName(n)}

\* Order of the timestamps embedded in two matching names: an over-long
\* digit run denotes a number above every int64.
StampLE(a, b) == b.kind = "overlong" \/ (a.kind # "overlong" /\ a.ts <= b.ts)

LargestStamp(M) == CHOOSE n \in M : \A m \in M : StampLE(m, n)

NotBefore(n, cutoff) == n.kind = "overlong" \/ n.ts >= cutoff

\* The cache files of a directory, with their contents.
CacheFiles(d) == [n \in Matching(DOMAIN d) |-> d[n]]

IsPrefix(a, b) == Len(a) <= Len(b) /\ a = SubSeq(b, 1, Len(a))

LoadIOFaults == LoadFaults \ {"none"}

MismatchError == "CacheError:cannot use latest cache file"

\* Steps of process p: the directory scan that decides, the load, the create.
Scanned(p) == pc[p] = "idle" /\ pc'[p] \in {"load", "get"}
Loaded(p)  == pc[p] = "load" /\ pc'[p] # "load"
Created(p) == pc[p] = "create" /\ pc'[p] # "create"

\* The file process p is about to load holds a well-formed list whose header
\* time differs from the time in its name.
Mismatch(p) ==
  LET r == fromTerseFormat(dir[call[p].newestFile].data)
  IN r.err = "none" /\ Unix(r.al.AsOf) # call[p].latestTime

\* C1: with cutoff = now - 3600*maxAgeHours and T the largest timestamp of a
\* matching name, the call loads from the cache exactly when a matching file
\* exists and T >= cutoff, and goes to the web exactly otherwise.
C1_CacheOrWebByOneRule ==
  [][\A p \in Procs : Scanned(p) =>
       LET M == Matching(DOMAIN dir)
           cutoff == Unix(clock) - SecPerHour * call'[p].maxAge
       IN /\ call'[p].cutoff = cutoff
          /\ (pc'[p] = "load") <=> (M # {} /\ NotBefore(LargestStamp(M), cutoff))
          /\ (pc'[p] = "get") <=> (M = {} \/ ~NotBefore(LargestStamp(M), cutoff))]_vars

\* C2: the file selected is the matching name with the largest embedded
\* timestamp, whatever the directory lists, and names that do not match
\* change nothing.
C2_SelectsLargestMatching ==
  [][\A p \in Procs : Scanned(p) =>
       LET M == Matching(DOMAIN dir)
       IN /\ M # {} => call'[p].newestFile = LargestStamp(M)
          /\ M = {} => call'[p].newestFile = NoName
          /\ Newest(DOMAIN dir) = Newest(M)]_vars

\* C3 as stated: FromCacheOrWeb(0) goes to the web on every call.
C3_ZeroAgeAlwaysFetches ==
  [][\A p \in Procs : (Scanned(p) /\ call'[p].maxAge = 0) => pc'[p] = "get"]_vars

\* C3 as amended: FromCacheOrWeb(0) goes to the web whenever every matching
\* name embeds a timestamp before the current second, and loads from the
\* cache when some cache file is stamped with the current second or later.
C3_ZeroAgeFetchesUnlessStampedNow ==
  [][\A p \in Procs : (Scanned(p) /\ call'[p].maxAge = 0) =>
       LET M == Matching(DOMAIN dir)
           now == Unix(clock)
       IN /\ (\A n \in M : n.kind = "cache" /\ n.ts < now) => pc'[p] = "get"
          /\ (\E n \in M : n.kind = "cache" /\ n.ts >= now) => pc'[p] = "load"]_vars

\* C3 witness: a call with maxAgeHours 0 is about to load a file that an
\* earlier fetch wrote in this same second.
C3_Witness ==
  \E p \in Procs :
    /\ pc[p] = "load" /\ call[p].maxAge = 0
    /\ dir[call[p].newestFile].writers # {}
    /\ call[p].latestTime = Unix(clock)

\* C4 as stated: once a call has refused a file for a header/name mismatch,
\* every later call whose freshness window includes that file fails too and
\* returns no list.  (Calls that read a file whose write did not complete
\* are left aside.)
C4_EveryLaterCallInWindowFails ==
  [][\A p \in Procs :
       (/\ Loaded(p)
        /\ \E f \in call[p].knownBad : f.ts >= call[p].cutoff
        /\ dir[call[p].newestFile].data = dir[call[p].newestFile].src)
       => (call'[p].err # "none" /\ call'[p].ret = NoList)]_vars

\* C4 as amended: a call that loads a file whose header time differs from
\* the time in its name returns the cache-integrity error and no list,
\* issues no GET and leaves every cache file as it was; this holds of every
\* call that selects the file, so of every later one while the file is
\* still the newest and inside the window.
C4_MismatchIsRefusedEveryTime ==
  [][\A p \in Procs :
       (Loaded(p) /\ Mismatch(p) /\ call'[p].err \notin LoadIOFaults)
       => /\ pc'[p] = "idle"
          /\ call'[p].err = MismatchError
          /\ call'[p].ret = NoList
          /\ ~call'[p].got
          /\ CacheFiles(dir') = CacheFiles(dir)]_vars

\* C4 witness: the only cache file is the renamed one, a call refused it,
\* and a call that began after that refusal was refused too.
C4_Witness ==
  \E p \in Procs :
    /\ pc[p] = "idle" /\ call[p].err = MismatchError
    /\ call[p].knownBad = {CacheName(SecPerHour)}
    /\ Matching(DOMAIN dir) = {CacheName(SecPerHour)}

\* C5: every cache file the fetch path wrote carries in its header the
\* timestamp of its name.
C5_WrittenHeaderEqualsName ==
  \A n \in DOMAIN dir :
    (dir[n].writers # {} /\ dir[n].data # <<>>) => dir[n].data[1] = HdrUnit(n.ts)

\* C6: the fetch path never returns success when the file it wrote is
\* incomplete.
C6_NoSuccessAfterFailedWrite ==
  [][\A p \in Procs :
       (pc[p] = "sync" /\ pc'[p] = "idle" /\ call'[p].err = "none")
       => dir[call[p].path].data = dir[call[p].path].src]_vars

\* C7: at every moment every file under a cache-file name holds the complete
\* encoding of the snapshot it was written for.
C7_CacheFilesAlwaysComplete ==
  \A n \in Matching(DOMAIN dir) : dir[n].data = dir[n].src

\* C8: the create is exclusive.  A create on an existing name fails at the
\* create stage and changes nothing; a create fails that way only when the
\* name exists; a create that passes made the file, empty and its own.  No
\* file ever has two writers, no two processes write the same file, and what
\* a file holds is the start of what its one writer set out to write.
C8_ExclusiveCreate ==
  /\ [](/\ \A n \in DOMAIN dir :
             Cardinality(dir[n].writers) <= 1 /\ IsPrefix(dir[n].data, dir[n].src)
        /\ \A p, q \in Procs :
             (p # q /\ call[p].path # NoName) => call[p].path # call[q].path)
  /\ [][\A p \in Procs : Created(p) =>
          LET path == formatCacheName(call[p].unixTime)
          IN /\ path \in DOMAIN dir =>
                  /\ pc'[p] = "idle"
                  /\ call'[p].err = "WriteError:create:exists"
                  /\ dir' = dir
             /\ call'[p].err = "WriteError:create:exists" => path \in DOMAIN dir
             /\ pc'[p] = "write" =>
                  /\ path \notin DOMAIN dir
                  /\ dir'[path] = File(<<>>, TerseOutput(call[p].al), {p})]_vars

\* C8 witness: one process lost the create to the other, which is still
\* writing the file it made.
C8_Witness ==
  \E p, q \in Procs :
    /\ p # q
    /\ pc[p] = "idle" /\ call[p].err = "WriteError:create:exists"
    /\ pc[q] \in {"write", "flush", "sync"}
    /\ dir[call[q].path].writers = {q}

\* C9: a call that loads a file another process has not finished writing
\* neither returns a list built from it nor fails for finding it empty.
C9_ReaderNeverHurtByPartialFile ==
  [][\A p \in Procs :
       (/\ Loaded(p)
        /\ dir[call[p].newestFile].data # dir[call[p].newestFile].src)
       => call'[p].err \notin {"none", "ReadError:empty"}]_vars

\* C10: a load ends the call.  When the file does not parse, or an I/O fault
\* stops the load, the call returns that error and no list, has issued no
\* GET and touched no cache file; and a GET is issued only by a call whose
\* scan found no file or found the newest one stale.
C10_FailedLoadIsTerminal ==
  [][\A p \in Procs :
       /\ Loaded(p) =>
            LET r == fromTerseFormat(dir[call[p].newestFile].data)
            IN /\ pc'[p] = "idle"
               /\ ~call'[p].got
               /\ CacheFiles(dir') = CacheFiles(dir)
               /\ call'[p].err # "none" => call'[p].ret = NoList
               /\ r.err # "none" => call'[p].err \in {r.err} \cup LoadIOFaults
       /\ (~call[p].got /\ call'[p].got) =>
            /\ pc[p] = "get"
            /\ MustFetch([newestFile |-> call[p].newestFile,
                          latestTime |-> call[p].latestTime], call[p].cutoff)]_vars

\* C10 witness: the newest file, inside the window, had a bad line; the call
\* returned the format error without a GET, though an older good file was
\* there.
C10_Witness ==
  \E p \in Procs :
    /\ pc[p] = "idle" /\ call[p].err = "TerseFormatError" /\ ~call[p].got
    /\ CacheName(1) \in DOMAIN dir
    /\ fromTerseFormat(dir[CacheName(1)].data).err = "none"

(***************************************************************************)
(* C11.  On the fetch path, a transport error, a non-2xx status and a body  *)
(* that fails to parse each make the call return an error and no AppList,   *)
(* and no cache file is created or modified.                                *)
(***************************************************************************)
FetchFailsCleanly(p) ==
  /\ call'[p].err \notin {"none", "pending"}
  /\ call'[p].ret = NoList
  /\ pc'[p] = "idle"
  /\ CacheFiles(dir') = CacheFiles(dir)

Non2xx(code) == code < 200 \/ code > 299

ParseFails(body) == FromJSON(body, clock).err \in {"JSONParseError", "ReadError"}

\* C11 as stated: the error carries the URL in each of the three cases (and
\* the status code for a non-2xx status).
C11_EveryFetchFailureCarriesURL ==
  [][\A p \in Procs :
       /\ \A code \in StatusCodes :
            Get(p, TRUE, code) => FetchFailsCleanly(p) /\ call'[p].info.URL = URL
       /\ \A code \in StatusCodes :
            Get(p, FALSE, code) /\ Non2xx(code) =>
               /\ FetchFailsCleanly(p)
               /\ call'[p].info.URL = URL
               /\ call'[p].info.StatusCode = code
       /\ \A body \in Bodies :
            Json(p, body) /\ ParseFails(body) =>
               FetchFailsCleanly(p) /\ call'[p].info.URL = URL]_vars

\* C11 as the code has it: a transport error and a non-2xx status are
\* WebErrors carrying the URL (and the status code); a body that fails to
\* parse is a JSONParseError or ReadError naming its source "Steam web API",
\* not the URL.  In each case no AppList is returned and the cache files are
\* as they were.
C11_FetchFailureReturnsErrorOnly ==
  [][\A p \in Procs :
       /\ \A code \in StatusCodes :
            Get(p, TRUE, code) => FetchFailsCleanly(p) /\ call'[p].info.URL = URL
       /\ \A code \in StatusCodes :
            Get(p, FALSE, code) /\ Non2xx(code) =>
               /\ FetchFailsCleanly(p)
               /\ call'[p].info.URL = URL
               /\ call'[p].info.StatusCode = code
       /\ \A body \in Bodies :
            Json(p, body) /\ ParseFails(body) =>
               /\ FetchFailsCleanly(p)
               /\ call'[p].info.URL = ""
               /\ call'[p].info.Source = "Steam web API"]_vars

\* A call that fetched beside a cache that holds a file and failed to parse
\* the body.
C11_Witness ==
  /\ call[Main].err = "JSONParseError"
  /\ call[Main].got
  /\ CacheFiles(dir) # <<>>

(***************************************************************************)
(* Helpers of the claims about the lists.                                  *)
(***************************************************************************)
Built == ix.stage \in {"json", "terse"} /\ ix.err = "none"

Asked(f) == ix.stage = "found" /\ ix.q.f = f

\* The first n elements of a view.
Real(l, n) == SubSeq(l, 1, n)

\* How often e occurs in a sequence.
Occurs(l, e) == Cardinality({k \in 1..Len(l) : l[k] = e})

SameBag(l, m) == \A e \in {l[k] : k \in 1..Len(l)} \cup {m[k] : k \in 1..Len(m)} :
                    Occurs(l, e) = Occurs(m, e)

IDs(l) == [k \in 1..Len(l) |-> l[k].ID]

StrLE(a, b) == ~StrLess(b, a)

\* The view a method searches and the answer it gives in the form (i, found).
ViewOf(f) == IF f = "FindNameForNumber" THEN ix.al.ByAppNum
             ELSE IF f = "FindNumberForName" THEN ix.al.ByNameMC
             ELSE ix.al.ByNameUC

AllLess ==
  LET l == ViewOf(ix.q.f) IN
  \A k \in 1..ix.al.Count :
     IF ix.q.f = "FindNameForNumber" THEN l[k].ID < ix.q.id
     ELSE IF ix.q.f = "FindNumberForName" THEN StrLess(l[k].Name, ix.q.name)
     ELSE StrLess(l[k].Name, ToUpper(ix.q.name))

C14_PastTheEndIsCountPlusOne ==
  ix.stage = "found" /\ ix.al.Count >= 1 /\ AllLess =>
    /\ ix.res.i = ix.al.Count + 1
    /\ InRange(ViewOf(ix.q.f), ix.al.Count + 1)
    /\ At(ViewOf(ix.q.f), ix.al.Count + 1) = nullItem

(***************************************************************************)
(* C15.  In every AppList read, the first Count elements of ByNameMC are   *)
(* in ascending byte-wise order of Name and the first Count elements of    *)
(* ByNameUC in ascending byte-wise order of the uppercased Name.           *)
(***************************************************************************)
AscendingByName(l, n) ==
  \A j, k \in 1..n : j < k => StrLE(l[j].Name, l[k].Name)

C15_NameViewsSortedByName ==
  Built => /\ AscendingByName(ix.al.ByNameMC, ix.al.Count)
           /\ AscendingByName(ix.al.ByNameUC, ix.al.Count)

(***************************************************************************)
(* C16.  FindNumberForName(e.Name) finds every real entry e: it returns    *)
(* (i, id) with ByNameMC[i].Name = e.Name and id # 0; FindNumberForNameUC  *)
(* does the same on ByNameUC for every query whose uppercase form is the   *)
(* uppercase of e.Name; for a name held by no entry both return id 0.      *)
(***************************************************************************)
Held(l, name) == \E k \in 1..ix.al.Count : l[k].Name = name

C16_NameLookupFindsWhatIsThere ==
  /\ Asked("FindNumberForName") =>
       IF Held(ix.al.ByNameMC, ix.q.name)
       THEN /\ ~ix.res.panic
            /\ ix.res.id # 0
            /\ At(ix.al.ByNameMC, ix.res.i).Name = ix.q.name
       ELSE ix.res.id = 0
  /\ Asked("FindNumberForNameUC") =>
       IF Held(ix.al.ByNameUC, ToUpper(ix.q.name))
       THEN /\ ~ix.res.panic
            /\ ix.res.id # 0
            /\ At(ix.al.ByNameUC, ix.res.i).Name = ToUpper(ix.q.name)
       ELSE ix.res.id = 0

(***************************************************************************)
(* C17.  Every AppList read has Count accepted entries; each of the three  *)
(* views has length Count + 1 with the sentinel as its single last         *)
(* element; the first Count elements of ByAppNum are the accepted entries  *)
(* in ascending id order; the views hold the same ids, and each ByNameUC   *)
(* name is the uppercase of that entry's name.                             *)
(***************************************************************************)
\* The entries of the body the reader accepts, as it hands them to
\* maybeInsert: the ids in 1 .. maxAppID, with the names of the later
\* entries of a JSON body as FromJSON's loop leaves them.
RECURSIVE Keep(_)
Keep(es) ==
  IF es = <<>> THEN <<>>
  ELSE IF Head(es).ID >= 1 /\ Head(es).ID <= maxAppID
       THEN <<Head(es)>> \o Keep(Tail(es))
       ELSE Keep(Tail(es))

Handed ==
  [k \in 1..Len(ix.body.pairs) |->
     [Name |-> IF ix.stage = "json" /\ k > 1
               THEN LaterName(ix.body.pairs[k].Name).name
               ELSE ix.body.pairs[k].Name,
      ID |-> ix.body.pairs[k].ID]]

Uppercased(l) == [k \in 1..Len(l) |-> [Name |-> ToUpper(l[k].Name), ID |-> l[k].ID]]

WithSentinel(l, n) ==
  /\ Len(l) = n + 1
  /\ l[n + 1] = nullItem
  /\ \A k \in 1..n : l[k] # nullItem /\ l[k].ID # 0

PairSet(al) == {al.ByAppNum[k] : k \in 1..al.Count}

C18_TerseRoundTrip ==
  ix.stage = "reread" =>
    /\ ix.back.err = "none"
    /\ PairSet(ix.back.al) = PairSet(ix.al)
    /\ Unix(ix.back.al.AsOf) = Unix(ix.al.AsOf)

(***************************************************************************)
(* C19.  Building the lists does not depend on the order of the input: any *)
(* two orderings of the same entries give the same ByAppNum, ByNameMC and  *)
(* ByNameUC, element for element.                                          *)
(***************************************************************************)
Orderings(n) == {f \in [1..n -> 1..n] : \A j, k \in 1..n : f[j] = f[k] => j = k}

Reordered(pairs, f) == [k \in 1..Len(pairs) |-> pairs[f[k]]]

C19_OrderIndependent ==
  ix.stage = "terse" /\ ix.err = "none" =>
    \A f \in Orderings(Len(ix.body.pairs)) :
       LET r == fromTerseFormat(TerseText(Reordered(ix.body.pairs, f), clock))
       IN /\ r.err = "none"
          /\ r.al.ByAppNum = ix.al.ByAppNum
          /\ r.al.ByNameMC = ix.al.ByNameMC
          /\ r.al.ByNameUC = ix.al.ByNameUC

(***************************************************************************)
(* C20.  FromJSON is total and all-or-nothing: for every input it returns  *)
(* exactly one of an AppList and an error, never aborts, and returns no    *)
(* partly built list on a parse failure.                                   *)
(***************************************************************************)
C20_FromJSONTotal ==
  ix.stage = "json" =>
    /\ ix.err # "panic: index out of range"
    /\ (ix.err = "none") # (ix.al = NoList)
    /\ ix.err = "none" => ix.al.Count >= 0 /\ Len(ix.al.ByAppNum) = ix.al.Count + 1

(***************************************************************************)
(* C21.  FromJSON returns an I/O error of the reader in the middle of the  *)
(* stream as a ReadError and bytes that do not match the pattern as a      *)
(* JSONParseError; an I/O failure is never reported as a parse failure.    *)
(***************************************************************************)
C21_IOFailureIsReadError ==
  ix.stage = "json" /\ ix.err # "panic: index out of range" =>
    /\ ix.body.kind \in {"broken", "ioerr"} => ix.err = "ReadError"
    /\ ix.body.kind = "garbage" => ix.err = "JSONParseError"

(***************************************************************************)
(* C22.  When FromJSON builds a list, a pair with id 0 is dropped without  *)
(* a log entry, a pair with an id outside (0, 2^31-1] is logged and        *)
(* dropped, neither makes the call fail, and every entry kept has          *)
(* 0 < id <= 2^31-1 with the name it was paired with.                      *)
(***************************************************************************)
LaterPairs == {k \in 2..Len(ix.body.pairs) : TRUE}

StripEOL(raw) ==
  LET n == Len(raw) IN
  IF n >= 1 /\ raw[n] = 10
  THEN IF n >= 2 /\ raw[n - 1] = 13 THEN SubSeq(raw, 1, n - 2)
       ELSE SubSeq(raw, 1, n - 1)
  ELSE raw

\* Stated for the lines that are not blank.
C23_BadLineReportedAsRead ==
  ix.stage = "lines" /\ ix.err = "TerseFormatError" =>
    /\ ix.al = NoList
    /\ ix.LineNum \in 2..(Len(ix.body.pairs) + 1)
    /\ LET raw == ix.body.pairs[ix.LineNum - 1].raw
       IN StripEOL(raw) # <<>> => ix.Line = StripEOL(raw)

(***************************************************************************)
(* C24.  FromTerseFormat skips every blank line and every line starting    *)
(* with # after the header: they add no entry and cause no error.          *)
(***************************************************************************)
Skippable(u) == StripEOL(u.raw) = <<>> \/ u.raw[1] = 35

RECURSIVE WithoutSkippable(_)
WithoutSkippable(units) ==
  IF units = <<>> THEN <<>>
  ELSE IF Skippable(Head(units)) THEN WithoutSkippable(Tail(units))
  ELSE <<Head(units)>> \o WithoutSkippable(Tail(units))

C24_BlankAndCommentLinesSkipped ==
  ix.stage = "lines" =>
    LET r == fromTerseFormat(<<HdrUnit(Unix(clock))>> \o WithoutSkippable(ix.body.pairs))
    IN ix.err = r.err /\ ix.al = r.al

(***************************************************************************)
(* C25.  WriteTerse emits the header line (URL and AsOf in UTC) first,     *)
(* then exactly Count entry lines, one per real entry in the order of      *)
(* ByAppNum (ascending id); the sentinel is never written.                 *)
(***************************************************************************)
\* What has gone to the writer so far: the file and the buffer.
Emitted(p) == dir[call[p].path].data \o call[p].buf

EntryLine(e) == RawUnit(FormatInt(e.ID) \o <<9>> \o QuoteInner(e.Name) \o <<10>>)

C25_HeaderThenCountLines ==
  \A p \in Procs :
    pc[p] \in {"write", "flush", "sync"} /\ ~call[p].bufErr =>
      LET c   == call[p]
          out == Emitted(p)
      IN /\ Len(out) <= c.al.Count + 1
         /\ Len(out) >= 1 =>
              out[1] = [kind |-> "hdr", url |-> URL, sec |-> Unix(c.al.AsOf), raw |-> <<>>]
         /\ \A k \in 2..Len(out) :
              /\ out[k] = EntryLine(c.al.ByAppNum[k - 1])
              /\ c.al.ByAppNum[k - 1].ID # 0
              /\ k > 2 => c.al.ByAppNum[k - 2].ID <= c.al.ByAppNum[k - 1].ID
         /\ pc[p] \in {"flush", "sync"} => Len(out) = c.al.Count + 1

\* A list of two entries written out in full.
C25_Witness ==
  /\ pc[Main] = "sync"
  /\ ~call[Main].bufErr
  /\ call[Main].al.Count = 2
  /\ Len(dir[call[Main].path].data) = 3

(***************************************************************************)
(* C26.  In FromJSON a name with 0xC2 followed by 0x92 or 0x99 has the     *)
(* pair replaced by the right quote or the trade-mark sign; any other      *)
(* 0xC2 and the byte after it are passed through and logged; the parse     *)
(* is not aborted.                                                         *)
(***************************************************************************)
HasC2(name) == IndexByte(Bytes(name), 194) > 0

C26_CP1252FixNeverAborts ==
  (/\ ix.stage = "json"
   /\ ix.body.kind = "json"
   /\ \A k \in LaterPairs : ix.body.pairs[k].Name # ""
   /\ \E k \in LaterPairs : HasC2(ix.body.pairs[k].Name)) =>
    /\ ix.err = "none"
    /\ \A k \in LaterPairs :
         ix.body.pairs[k].Name = "<C2><99>" /\ ix.body.pairs[k].ID > 0 =>
            \E j \in 1..ix.al.Count :
               ix.al.ByAppNum[j] = [Name |-> "<TM>", ID |-> ix.body.pairs[k].ID]

(***************************************************************************)
(* C27.  FromJSON applies both fix-ups of names (the final tab, the        *)
(* CP1252 sequences) to every entry, the first included, before the entry  *)
(* is inserted.                                                            *)
(***************************************************************************)
AllFixed ==
  [k \in 1..Len(ix.body.pairs) |->
     [Name |-> LaterName(ix.body.pairs[k].Name).name, ID |-> ix.body.pairs[k].ID]]

C27_FixUpsOnEveryEntry ==
  ix.stage = "json" /\ ix.err = "none" =>
    SameBag(Real(ix.al.ByAppNum, ix.al.Count), Keep(AllFixed))

(***************************************************************************)
(* C28.  FromTerseFormat rejects every line whose leading run of digits    *)
(* denotes a value above 2^31-1, however long the run is.                  *)
(***************************************************************************)
RECURSIVE DropZeros(_)
DropZeros(ds) == IF ds # <<>> /\ ds[1] = 48 THEN DropZeros(Tail(ds)) ELSE ds

\* The digits of 2^31-1.
MaxDigits == <<50, 49, 52, 55, 52, 56, 51, 54, 52, 55>>

\* Whether the digit run at the start of a line denotes more than 2^31-1.
TooBig(raw) ==
  LET ds == DropZeros(SubSeq(raw, 1, DigitRun(raw)))
  IN Len(ds) > Len(MaxDigits) \/ (Len(ds) = Len(MaxDigits) /\ BytesLess(MaxDigits, ds))

C28_OverlongDigitRunRejected ==
  ix.stage = "lines" /\ (\E k \in 1..Len(ix.body.pairs) : TooBig(ix.body.pairs[k].raw)) =>
    ix.err # "none"

(***************************************************************************)
(* C29.  Fetch then hit: after a call has succeeded through the fetch path *)
(* at time t, a call FromCacheOrWeb(h) at t' with t <= t' and              *)
(* t' - t <= 3600*h, the directory being as the first call left it,        *)
(* succeeds without an HTTP GET and returns the same (id, name) pairs and  *)
(* the same AsOf second.  (t is taken as the AsOf second of the first      *)
(* call, which is not after its return.)                                   *)
(***************************************************************************)
FetchedBefore(p) ==
  /\ call[p].err = "none"
  /\ call[p].got
  /\ call[p].ret # NoList

C29_FetchThenHit ==
  [][\A h \in 0..MaxAgeHours :
       (/\ FetchedBefore(Main)
        /\ Scan(Main, h, "none")
        /\ Unix(clock) - Unix(call[Main].ret.AsOf) <= SecPerHour * h) =>
         /\ pc'[Main] = "load"
         /\ LET c == call'[Main]
                r == AfterLoad(fromTerseFormat(dir[c.newestFile].data), c.latestTime)
            IN /\ r.err = "none"
               /\ PairSet(r.al) = PairSet(call[Main].ret)
               /\ Unix(r.al.AsOf) = Unix(call[Main].ret.AsOf)]_vars

====
